---- MODULE Spec2Model ----
(***************************************************************************)
(* Model of the dnssec-tests harness:                                      *)
(*   - the sandbox network allocator (dns-test/src/container/network.rs),  *)
(*   - the NSEC3 helpers of the RFC 5155 conformance test                  *)
(*     (conformance-tests/src/resolver/dnssec/rfc5155.rs).                 *)
(*                                                                         *)
(* IPv4 addresses are 4-tuples of octets, netmasks are dotted 4-tuples as  *)
(* ifconfig prints them, strings that are compared are sequences of ASCII  *)
(* codes.  The docker daemon and ifconfig are the environment: a created   *)
(* network shows up as a bridge interface of the host, a removed one       *)
(* disappears, and `docker network create` / `docker network inspect` may  *)
(* fail at any time.                                                       *)
(***************************************************************************)
EXTENDS Integers, Sequences, FiniteSets, TLC

\* ------------------------------------------------------------------ bounds
\* last value of the third octet scanned by each loop of choose_network
\* (255 in the source)
LastC == 1
\* last second octet of the 172.b.c.0 loop (31 in the source)
LastB172 == 17
\* last second octet of the 10.b.c.0 loop (255 in the source)
LastB10 == 1
\* number of test threads of the first test-runner process (the second
\* process runs one)
NumThreads == 2
\* number of Network::new calls on the host that get past LOCK.lock()
MaxCalls == 2
\* largest number of clones of one Network that are held at a time
MaxClones == 2
\* length of a hash label (32 in the source) and largest number of entries
\* of the table of hashes
HashLen == 3
MaxTable == 3
\* lines of a `docker ps` or `docker network ls` listing
MaxLines == 2

\* ------------------------------------------------------- program constants
\* first second octet of the 172.b.c.0 loop
FirstB172 == 16
\* initial value of the static COUNT
CountInit == 1

\* two test-runner processes share the host: the first runs NumThreads test
\* threads, the second one
Pids == {1, 2}
Tids(p) == IF p = 1 THEN 1..NumThreads ELSE {1}
Allocs == {a \in Pids \X (1..NumThreads) : a[2] \in Tids(a[1])}
Names == Pids \X (CountInit..(CountInit + MaxCalls - 1))

VARIABLES
    hostIfaces,  \* interfaces of the host that are not docker bridges, in ifconfig order
    networks,    \* docker networks that exist, in creation order: [name, subnet]
    LOCK,        \* per process, the static Mutex of NetworkInner::new
    COUNT,       \* per process, the static AtomicUsize of network_count
    pc,          \* per test thread, where it is inside Network::new
    frame,       \* per test thread, the locals of NetworkInner::new
    result,      \* per test thread, how its last Network::new call ended
    handles,     \* per network name, the strong count of its Arc<NetworkInner>
    rmCalls,     \* per network name, how often Drop for NetworkInner has run
    issued       \* history: per process, the values network_count returned, in order

netVars ==
    <<hostIfaces, networks, LOCK, COUNT, pc, frame, result, handles, rmCalls, issued>>

VARIABLES
    ovArgs,      \* overlaps_with: the candidate and the interface line it is called on
    ovRet        \* overlaps_with: what the call returned, "none" before it

ovVars == <<ovArgs, ovRet>>

VARIABLES
    hashes,      \* rfc5155: the sorted list of hashes that can be proven to exist
    nsec3_rrs,   \* rfc5155: the NSEC3 records of the authority section
    needle,      \* rfc5155: the hash that is looked up or covered
    verdict      \* rfc5155: the helper or check that ran, and its outcome

nsecVars == <<hashes, nsec3_rrs, needle, verdict>>

VARIABLES
    args,            \* purge: the command line arguments after the program name
    dockerPs,        \* purge: the lines `docker ps` prints, one per running container
    dockerNetworkLs, \* purge: the lines `docker network ls` prints, one per network
    purge,           \* purge: where `run` is, with its locals
    ran,             \* purge history: the docker commands run, in order, with their outcome
    printed,         \* purge: the lines `run` wrote to stdout
    exit             \* purge: whether the process has ended, its status and the error on stderr

purgeVars == <<args, dockerPs, dockerNetworkLs, purge, ran, printed, exit>>

\* everything but the allocator's state
nonNetVars == <<ovVars, nsecVars, purgeVars>>

vars == <<netVars, ovVars, nsecVars, purgeVars>>

\* ------------------------------------------------------------- addresses
NoAddr == <<0, 0, 0, 0>>

Pow2(n) == 2 ^ n

\* u8::count_ones
CountOnes(octet) ==
    LET bit(i) == (octet \div Pow2(i)) % 2
    IN  bit(0) + bit(1) + bit(2) + bit(3) + bit(4) + bit(5) + bit(6) + bit(7)

\* netmask.split('.') ... map(count_ones).sum()
NetmaskBits(netmask) ==
    CountOnes(netmask[1]) + CountOnes(netmask[2]) + CountOnes(netmask[3]) + CountOnes(netmask[4])

\* the bridge interface the docker daemon gives a network: the gateway x.y.z.1/24
Bridge(net) ==
    [addr |-> <<net.subnet[1], net.subnet[2], net.subnet[3], 1>>,
     netmask |-> <<255, 255, 255, 0>>]

\* the output of `ifconfig`: the host's own interfaces, then the bridges
Ifconfig == hostIfaces \o [i \in 1..Len(networks) |-> Bridge(networks[i])]

\* in_use(): one (address, netmask_bits) pair per "inet" line
in_use(ifconfig) ==
    [i \in 1..Len(ifconfig) |-> <<ifconfig[i].addr, NetmaskBits(ifconfig[i].netmask)>>]

\* overlaps_with with the /16 arm comparing three octets instead of two
overlaps_with_16_as_24(lhs, rhs, rhs_netmask_bits) ==
    IF rhs_netmask_bits = 24 \/ rhs_netmask_bits = 16
    THEN IF <<lhs[1], lhs[2], lhs[3]>> = <<rhs[1], rhs[2], rhs[3]>> THEN "true" ELSE "false"
    ELSE IF rhs_netmask_bits = 8
    THEN IF lhs[1] = rhs[1] THEN "true" ELSE "false"
    ELSE "unreachable"

\* overlaps_with: "true", "false", or "unreachable" when unreachable!() panics
overlaps_with(lhs, rhs, rhs_netmask_bits) ==
    IF rhs_netmask_bits = 24
    THEN IF <<lhs[1], lhs[2], lhs[3]>> = <<rhs[1], rhs[2], rhs[3]>> THEN "true" ELSE "false"
    ELSE IF rhs_netmask_bits = 16
    THEN IF <<lhs[1], lhs[2]>> = <<rhs[1], rhs[2]>> THEN "true" ELSE "false"
    ELSE IF rhs_netmask_bits = 8
    THEN IF lhs[1] = rhs[1] THEN "true" ELSE "false"
    ELSE "unreachable"

RECURSIVE OverlapsFrom(_, _, _)
OverlapsFrom(lhs, inUse, i) ==
    IF i > Len(inUse)
    THEN "false"
    ELSE LET r == overlaps_with(lhs, inUse[i][1], inUse[i][2])
         IN  IF r = "false" THEN OverlapsFrom(lhs, inUse, i + 1) ELSE r

\* overlaps_with_any: the first entry that overlaps (or panics) ends the loop
overlaps_with_any(lhs, inUse) == OverlapsFrom(lhs, inUse, 1)

\* the candidates of choose_network in the order its three loops visit them
Ladder192 == [i \in 1..(LastC + 1) |-> <<192, 168, i - 1, 0>>]
Ladder172 ==
    [i \in 1..((LastB172 - FirstB172 + 1) * (LastC + 1)) |->
        <<172, FirstB172 + ((i - 1) \div (LastC + 1)), (i - 1) % (LastC + 1), 0>>]
Ladder10 ==
    [i \in 1..((LastB10 + 1) * (LastC + 1)) |->
        <<10, (i - 1) \div (LastC + 1), (i - 1) % (LastC + 1), 0>>]
Ladder == Ladder192 \o Ladder172 \o Ladder10

RECURSIVE ChooseFrom(_, _)
ChooseFrom(inUse, k) ==
    IF k > Len(Ladder)
    THEN [kind |-> "unimplemented", addr |-> NoAddr]
    ELSE LET r == overlaps_with_any(Ladder[k], inUse)
         IN  IF r = "false" THEN [kind |-> "chosen", addr |-> Ladder[k]]
             ELSE IF r = "true" THEN ChooseFrom(inUse, k + 1)
             ELSE [kind |-> "unreachable", addr |-> NoAddr]

\* choose_network: the first candidate that overlaps nothing in use;
\* "unimplemented" when unimplemented!() panics, "unreachable" when a call of
\* overlaps_with panics
choose_network(inUse) == ChooseFrom(inUse, 1)

\* ------------------------------------------------------------- the host
Lo == [addr |-> <<127, 0, 0, 1>>, netmask |-> <<255, 0, 0, 0>>]
Docker0 == [addr |-> <<172, 17, 0, 1>>, netmask |-> <<255, 255, 0, 0>>]
Lan192(wide) ==
    [addr |-> <<192, 168, 0, 7>>,
     netmask |-> IF wide THEN <<255, 255, 0, 0>> ELSE <<255, 255, 255, 0>>]
Vpn10 == [addr |-> <<10, 0, 0, 2>>, netmask |-> <<255, 0, 0, 0>>]
\* LANs on every 172.b/16 block but docker's, and a tunnel on 10/8
Others ==
    LET bs == [i \in 1..(LastB172 - FirstB172 + 1) |-> FirstB172 + i - 1]
        rest == SelectSeq(bs, LAMBDA b : b # Docker0.addr[2])
    IN  [i \in 1..Len(rest) |-> [addr |-> <<172, rest[i], 0, 1>>, netmask |-> <<255, 255, 0, 0>>]]
        \o <<Vpn10>>
Eth20 == [addr |-> <<10, 1, 1, 9>>, netmask |-> <<255, 255, 240, 0>>]

Opt(flag, seq) == IF flag THEN seq ELSE <<>>

\* the interface lists a host may have: the loopback, and any of a LAN in
\* 192.168/16 (as a /24 or a /16), docker's default bridge, the LANs and the
\* tunnel of Others, and an interface with a /20 netmask
HostConfigs ==
    { <<Lo>> \o Opt(lan # "no", <<Lan192(lan = "wide")>>) \o Opt(d0, <<Docker0>>)
             \o Opt(oth, Others) \o Opt(e20, <<Eth20>>) :
        lan \in {"no", "narrow", "wide"}, d0 \in BOOLEAN, oth \in BOOLEAN,
        e20 \in BOOLEAN }

\* ------------------------------------------------------------- Network::new
\* count: `count`; ifconfig: the output in_use() read; subnet: the candidate chosen
NoFrame == [count |-> 0, ifconfig |-> <<>>, subnet |-> NoAddr]

\* the frame of a call that has returned: only its name is remembered
Returned(fr) == [NoFrame EXCEPT !.count = fr.count]

NetInit ==
    /\ hostIfaces \in HostConfigs
    /\ networks = <<>>
    /\ LOCK = [p \in Pids |-> "unlocked"]
    /\ COUNT = [p \in Pids |-> CountInit]
    /\ pc = [a \in Allocs |-> "idle"]
    /\ frame = [a \in Allocs |-> NoFrame]
    /\ result = [a \in Allocs |-> "none"]
    /\ handles = [n \in Names |-> 0]
    /\ rmCalls = [n \in Names |-> 0]
    /\ issued = [p \in Pids |-> <<>>]

NetworkName(a) == <<a[1], frame[a].count>>

NetworkNames == {networks[i].name : i \in 1..Len(networks)}

\* network_count with a load in place of the fetch_add
network_count_load(count) == [returned |-> count, stored |-> count]

\* COUNT.fetch_add(1, Relaxed): the value returned and the value stored
network_count(count) == [returned |-> count, stored |-> count + 1]

\* the calls that got a count so far, over all processes
Calls == COUNT[1] + COUNT[2] - 2 * CountInit

\* the test threads that have entered Network::new and wait for LOCK
Waiting == {a \in Allocs : pc[a] = "waiting"}

\* a test thread calls Network::new and arrives at `LOCK.lock()`
Call(a) ==
    /\ pc[a] = "idle"
    /\ LOCK[a[1]] = "poisoned" \/ Calls + Cardinality(Waiting) < MaxCalls
    /\ pc' = [pc EXCEPT ![a] = "waiting"]
    /\ frame' = [frame EXCEPT ![a] = NoFrame]
    /\ result' = [result EXCEPT ![a] = "none"]
    /\ UNCHANGED <<nonNetVars, hostIfaces, networks, LOCK, COUNT, handles, rmCalls, issued>>

\* Lock without the mutex: the call goes on while another thread holds LOCK
LockNoMutex(a) ==
    /\ pc[a] = "waiting"
    /\ LOCK[a[1]] # "poisoned"
    /\ LOCK' = [LOCK EXCEPT ![a[1]] = "locked"]
    /\ COUNT' = [COUNT EXCEPT ![a[1]] = @ + 1]
    /\ frame' = [frame EXCEPT ![a] = [NoFrame EXCEPT !.count = COUNT[a[1]]]]
    /\ issued' = [issued EXCEPT ![a[1]] = Append(@, COUNT[a[1]])]
    /\ pc' = [pc EXCEPT ![a] = "named"]
    /\ result' = [result EXCEPT ![a] = "none"]
    /\ UNCHANGED <<nonNetVars, hostIfaces, networks, handles, rmCalls>>

\* `let guard = LOCK.lock()?; let count = network_count();` the call blocks
\* while another thread of the process holds LOCK; nothing but the holder of
\* LOCK touches COUNT, so taking the lock and the count are one step
Lock(a) ==
    /\ pc[a] = "waiting"
    /\ LOCK[a[1]] = "unlocked"
    /\ LOCK' = [LOCK EXCEPT ![a[1]] = "locked"]
    /\ LET c == network_count(COUNT[a[1]])
       IN  /\ COUNT' = [COUNT EXCEPT ![a[1]] = c.stored]
           /\ frame' = [frame EXCEPT ![a] = [NoFrame EXCEPT !.count = c.returned]]
           /\ issued' = [issued EXCEPT ![a[1]] = Append(@, c.returned)]
    /\ pc' = [pc EXCEPT ![a] = "named"]
    /\ result' = [result EXCEPT ![a] = "none"]
    /\ UNCHANGED <<nonNetVars, hostIfaces, networks, handles, rmCalls>>

\* a lock() that clears the poison instead of returning Err
LockPoisonedRecovers(a) ==
    /\ pc[a] = "waiting"
    /\ LOCK[a[1]] = "poisoned"
    /\ LOCK' = [LOCK EXCEPT ![a[1]] = "unlocked"]
    /\ UNCHANGED <<nonNetVars, hostIfaces, networks, COUNT, pc, frame, result, handles, rmCalls, issued>>

\* `LOCK.lock()?` on a poisoned mutex: the call returns Err
LockPoisoned(a) ==
    /\ pc[a] = "waiting"
    /\ LOCK[a[1]] = "poisoned"
    /\ pc' = [pc EXCEPT ![a] = "idle"]
    /\ result' = [result EXCEPT ![a] = "err_poisoned"]
    /\ UNCHANGED <<nonNetVars, hostIfaces, networks, LOCK, COUNT, frame, handles, rmCalls, issued>>

\* `let in_use = in_use()?; let subnet = ... choose_network(&in_use)`:
\* a panic inside choose_network unwinds through the guard and poisons LOCK
Choose(a) ==
    /\ pc[a] = "named"
    /\ LET choice == choose_network(in_use(Ifconfig))
       IN  IF choice.kind = "chosen"
           THEN /\ frame' = [frame EXCEPT ![a].ifconfig = Ifconfig, ![a].subnet = choice.addr]
                /\ pc' = [pc EXCEPT ![a] = "chosen"]
                /\ UNCHANGED <<LOCK, result>>
           ELSE /\ frame' = [frame EXCEPT ![a].ifconfig = Ifconfig]
                /\ pc' = [pc EXCEPT ![a] = "panicked"]
                /\ LOCK' = [LOCK EXCEPT ![a[1]] = "poisoned"]
                /\ result' = [result EXCEPT ![a] = choice.kind]
    /\ UNCHANGED <<nonNetVars, hostIfaces, networks, COUNT, handles, rmCalls, issued>>

\* `in_use()?` when running ifconfig fails: Err, the guard is dropped
ChooseIoError(a) ==
    /\ pc[a] = "named"
    /\ pc' = [pc EXCEPT ![a] = "idle"]
    /\ frame' = [frame EXCEPT ![a] = Returned(@)]
    /\ LOCK' = [LOCK EXCEPT ![a[1]] = "unlocked"]
    /\ result' = [result EXCEPT ![a] = "err_io"]
    /\ UNCHANGED <<nonNetVars, hostIfaces, networks, COUNT, handles, rmCalls, issued>>

\* `docker network create ... --subnet <subnet> <name>` succeeds; drop(guard)
Create(a) ==
    /\ pc[a] = "chosen"
    /\ networks' = Append(networks, [name |-> NetworkName(a), subnet |-> frame[a].subnet])
    /\ LOCK' = [LOCK EXCEPT ![a[1]] = "unlocked"]
    /\ pc' = [pc EXCEPT ![a] = "created"]
    /\ UNCHANGED <<nonNetVars, hostIfaces, COUNT, frame, result, handles, rmCalls, issued>>

\* the command exits unsuccessfully: drop(guard), return Err(stdout, stderr)
CreateFails(a) ==
    /\ pc[a] = "chosen"
    /\ LOCK' = [LOCK EXCEPT ![a[1]] = "unlocked"]
    /\ pc' = [pc EXCEPT ![a] = "idle"]
    /\ frame' = [frame EXCEPT ![a] = Returned(@)]
    /\ result' = [result EXCEPT ![a] = "err_create"]
    /\ UNCHANGED <<nonNetVars, hostIfaces, networks, COUNT, handles, rmCalls, issued>>

\* get_network_config succeeds: Ok(Network(Arc::new(NetworkInner { .. })))
Inspect(a) ==
    /\ pc[a] = "created"
    /\ handles' = [handles EXCEPT ![NetworkName(a)] = 1]
    /\ pc' = [pc EXCEPT ![a] = "idle"]
    /\ frame' = [frame EXCEPT ![a] = Returned(@)]
    /\ result' = [result EXCEPT ![a] = "ok"]
    /\ UNCHANGED <<nonNetVars, hostIfaces, networks, LOCK, COUNT, rmCalls, issued>>

\* get_network_config fails: `?` returns Err before a NetworkInner exists
InspectFails(a) ==
    /\ pc[a] = "created"
    /\ pc' = [pc EXCEPT ![a] = "idle"]
    /\ frame' = [frame EXCEPT ![a] = Returned(@)]
    /\ result' = [result EXCEPT ![a] = "err_inspect"]
    /\ UNCHANGED <<nonNetVars, hostIfaces, networks, LOCK, COUNT, handles, rmCalls, issued>>

\* #[derive(Clone)] on Network: one more owner of the Arc
Clone(n) ==
    /\ handles[n] >= 1
    /\ handles[n] < MaxClones
    /\ handles' = [handles EXCEPT ![n] = @ + 1]
    /\ UNCHANGED <<nonNetVars, hostIfaces, networks, LOCK, COUNT, pc, frame, result, rmCalls, issued>>

\* Drop for NetworkInner run by every owner that goes away
DropRunsInnerAlways(count) == TRUE

\* does dropping one of `count` owners run Drop for NetworkInner?
DropRunsInner(count) == count = 1

\* a Network is dropped; the last owner runs `docker network rm --force <name>`
DropNetwork(n) ==
    /\ handles[n] >= 1
    /\ handles' = [handles EXCEPT ![n] = @ - 1]
    /\ IF DropRunsInner(handles[n])
       THEN /\ networks' = SelectSeq(networks, LAMBDA net : net.name # n)
            /\ rmCalls' = [rmCalls EXCEPT ![n] = @ + 1]
       ELSE UNCHANGED <<networks, rmCalls>>
    /\ UNCHANGED <<nonNetVars, hostIfaces, LOCK, COUNT, pc, frame, result, issued>>

NetNext ==
    \/ \E a \in Allocs :
        \/ Call(a)
        \/ Lock(a)
        \/ LockPoisoned(a)
        \/ Choose(a)
        \/ ChooseIoError(a)
        \/ Create(a)
        \/ CreateFails(a)
        \/ Inspect(a)
        \/ InspectFails(a)
    \/ \E n \in Names : Clone(n) \/ DropNetwork(n)

\* ------------------------------------------------------- overlaps_with alone
\* the dotted netmask of a prefix length
Netmask(prefix) ==
    [i \in 1..4 |->
        LET k == prefix - 8 * (i - 1)
            ones == IF k < 0 THEN 0 ELSE IF k > 8 THEN 8 ELSE k
        IN  256 - Pow2(8 - ones)]

Candidates == {Ladder[k] : k \in 1..Len(Ladder)}

\* addresses inside and next to the candidates' blocks
OvAddrs ==
    {Lo.addr, Docker0.addr, Lan192(TRUE).addr, Vpn10.addr, Eth20.addr,
     <<192, 168, 1, 1>>, <<192, 169, 0, 1>>, <<172, 16, 1, 200>>, <<11, 0, 0, 1>>}

OvIdle == ovArgs = <<>> /\ ovRet = "none"

OvInit ==
    /\ ovArgs \in [lhs : Candidates,
                   iface : [addr : OvAddrs, netmask : {Netmask(p) : p \in 0..32}]]
    /\ ovRet = "none"

\* in_use() on the one interface line, then overlaps_with on its entry
CallOverlapsWith ==
    /\ ovRet = "none"
    /\ LET entry == in_use(<<ovArgs.iface>>)[1]
       IN  ovRet' = overlaps_with(ovArgs.lhs, entry[1], entry[2])
    /\ UNCHANGED <<netVars, nsecVars, purgeVars, ovArgs>>

\* ------------------------------------------------------------- rfc5155.rs
\* the characters of a hash label: "0" and "A"
Alphabet == {48, 65}

\* str::to_uppercase and str::to_lowercase on ASCII
to_uppercase(s) == [i \in 1..Len(s) |-> IF s[i] \in 97..122 THEN s[i] - 32 ELSE s[i]]
to_lowercase(s) == [i \in 1..Len(s) |-> IF s[i] \in 65..90 THEN s[i] + 32 ELSE s[i]]

\* `<` of str: byte by byte, a proper prefix is smaller
StrLess(x, y) ==
    \/ \E i \in 1..Len(x) :
          /\ i <= Len(y)
          /\ x[i] < y[i]
          /\ \A j \in 1..(i - 1) : x[j] = y[j]
    \/ Len(x) < Len(y) /\ \A j \in 1..Len(x) : x[j] = y[j]

\* the first label of record.fqdn, upper-cased
OwnerHash(record) == to_uppercase(record.owner)

\* covers: next_hashed_owner_name > hash && upper-cased owner label < hash
covers(record, hash) ==
    StrLess(hash, record.next) /\ StrLess(OwnerHash(record), hash)

RECURSIVE BSearch(_, _, _, _)
BSearch(haystack, x, lo, hi) ==
    IF lo >= hi
    THEN [found |-> FALSE, index |-> lo]
    ELSE LET mid == lo + ((hi - lo) \div 2)
             elem == haystack[mid + 1]
         IN  IF elem = x THEN [found |-> TRUE, index |-> mid]
             ELSE IF StrLess(elem, x) THEN BSearch(haystack, x, mid + 1, hi)
             ELSE BSearch(haystack, x, lo, mid)

\* haystack.binary_search(&needle): Ok(index) or Err(insertion index), 0-based
binary_search(haystack, x) == BSearch(haystack, x, 0, Len(haystack))

\* find_prev without the `0 => haystack.len() - 1` arm
find_prev_no_wrap(x, haystack) == binary_search(haystack, x).index - 1

\* find_next without `% haystack.len()`
find_next_no_mod(x, haystack) == binary_search(haystack, x).index + 1

\* find_prev: 0-based index of the element before `needle`
find_prev(x, haystack) ==
    LET index == binary_search(haystack, x).index
    IN  IF index = 0 THEN Len(haystack) - 1 ELSE index - 1

\* find_next: 0-based index of the element after `needle`
find_next(x, haystack) ==
    LET index == binary_search(haystack, x).index
    IN  (index + 1) % Len(haystack)

\* nsec3_rrs.iter().find(|record| covers(record, hash)): the index of the
\* first record that covers `hash`, 0 when there is none
FirstCovering(rrs, hash) ==
    LET found == {i \in 1..Len(rrs) : covers(rrs[i], hash)}
    IN  IF found = {} THEN 0 ELSE CHOOSE i \in found : \A j \in found : i <= j

\* the next-closer-name part of proof_of_non_existence_with_nsec3_records:
\* "not_found" when expect() panics, "owner_mismatch" and "next_mismatch"
\* when the first and the second assert_eq! fail
next_closer_check(rrs, table, hash) ==
    LET rec == FirstCovering(rrs, hash)
        index == find_prev(hash, table)
    IN  IF rec = 0 THEN [rec |-> 0, value |-> "not_found"]
        ELSE IF table[index + 1] # OwnerHash(rrs[rec])
        THEN [rec |-> rec, value |-> "owner_mismatch"]
        ELSE IF table[((index + 1) % Len(table)) + 1] # rrs[rec].next
        THEN [rec |-> rec, value |-> "next_mismatch"]
        ELSE [rec |-> rec, value |-> "ok"]

\* nsec3_rrs.iter().find(|record| record.fqdn == closest_encloser_fqdn),
\* where the first label of closest_encloser_fqdn is hash.to_lowercase():
\* the index of the first such record, 0 when there is none
FirstOwnedBy(rrs, hash) ==
    LET found == {i \in 1..Len(rrs) : rrs[i].owner = to_lowercase(hash)}
    IN  IF found = {} THEN 0 ELSE CHOOSE i \in found : \A j \in found : i <= j

\* the closest-encloser part without its assert_eq!
closest_encloser_check_unasserted(rrs, table, hash) ==
    LET rec == FirstOwnedBy(rrs, hash)
    IN  [rec |-> rec, value |-> IF rec = 0 THEN "not_found" ELSE "ok"]

\* the closest-encloser part of proof_of_non_existence_with_nsec3_records:
\* "not_found" when expect() panics, "next_mismatch" when assert_eq! fails
closest_encloser_check(rrs, table, hash) ==
    LET rec == FirstOwnedBy(rrs, hash)
        expected == table[find_next(hash, table) + 1]
    IN  IF rec = 0 THEN [rec |-> 0, value |-> "not_found"]
        ELSE IF expected # rrs[rec].next
        THEN [rec |-> rec, value |-> "next_mismatch"]
        ELSE [rec |-> rec, value |-> "ok"]

HashUniverse == [1..HashLen -> Alphabet]

RECURSIVE SortSet(_)
\* hashes.sort()
SortSet(S) ==
    IF S = {}
    THEN <<>>
    ELSE LET m == CHOOSE x \in S : \A y \in S : x = y \/ StrLess(x, y)
         IN  <<m>> \o SortSet(S \ {m})

Tables == {SortSet(S) : S \in {T \in SUBSET HashUniverse : T # {} /\ Cardinality(T) <= MaxTable}}

\* the NSEC3 chain of a signed zone whose names hash to `table`: one record
\* per entry, lower-case owner label, next = the following entry, circularly
Chain(table) ==
    [i \in 1..Len(table) |->
        [owner |-> to_lowercase(table[i]), next |-> table[(i % Len(table)) + 1]]]

\* the chain with its k-th record left out
Without(seq, k) == [i \in 1..(Len(seq) - 1) |-> IF i < k THEN seq[i] ELSE seq[i + 1]]

NoVerdict == [op |-> "none", rec |-> 0, value |-> "none", index |-> -1]

NsecIdle == hashes = <<>> /\ nsec3_rrs = <<>> /\ needle = <<>> /\ verdict = NoVerdict

\* the chain whose k-th record skips an entry: its next is the entry after
\* the one that follows its owner
Skewed(table, k) == [Chain(table) EXCEPT ![k].next = table[((k + 1) % Len(table)) + 1]]

\* a response carries the whole chain, the chain but one record, or the
\* chain with the next_hashed_owner_name of one record changed
NsecInit ==
    /\ hashes \in Tables
    /\ nsec3_rrs \in {Chain(hashes)}
            \cup {Without(Chain(hashes), k) : k \in 1..Len(hashes)}
            \cup {Skewed(hashes, k) : k \in 1..Len(hashes)}
    /\ needle \in HashUniverse
    /\ verdict = NoVerdict

\* covers(record, needle) on one record of the response
CallCovers(i) ==
    /\ verdict.op = "none"
    /\ i \in 1..Len(nsec3_rrs)
    /\ verdict' = [op |-> "covers", rec |-> i,
                   value |-> IF covers(nsec3_rrs[i], needle) THEN "true" ELSE "false",
                   index |-> -1]
    /\ UNCHANGED <<netVars, ovVars, purgeVars, hashes, nsec3_rrs, needle>>

\* lines 155-181 with `needle` as the hash of the next closer name
NextCloserCheck ==
    /\ verdict.op = "none"
    /\ LET r == next_closer_check(nsec3_rrs, hashes, needle)
       IN  verdict' = [op |-> "next_closer", rec |-> r.rec, value |-> r.value,
                       index |-> -1]
    /\ UNCHANGED <<netVars, ovVars, purgeVars, hashes, nsec3_rrs, needle>>

\* lines 139-153 with `needle` as the hash of the closest encloser
ClosestEncloserCheck ==
    /\ verdict.op = "none"
    /\ LET r == closest_encloser_check(nsec3_rrs, hashes, needle)
       IN  verdict' = [op |-> "closest_encloser", rec |-> r.rec, value |-> r.value,
                       index |-> -1]
    /\ UNCHANGED <<netVars, ovVars, purgeVars, hashes, nsec3_rrs, needle>>

\* find_prev(needle, &hashes)
FindPrev ==
    /\ verdict.op = "none"
    /\ verdict' = [op |-> "find_prev", rec |-> 0, value |-> "returned",
                   index |-> find_prev(needle, hashes)]
    /\ UNCHANGED <<netVars, ovVars, purgeVars, hashes, nsec3_rrs, needle>>

\* find_next(needle, &hashes)
FindNext ==
    /\ verdict.op = "none"
    /\ verdict' = [op |-> "find_next", rec |-> 0, value |-> "returned",
                   index |-> find_next(needle, hashes)]
    /\ UNCHANGED <<netVars, ovVars, purgeVars, hashes, nsec3_rrs, needle>>

NsecNext ==
    \/ \E i \in 1..MaxTable : CallCovers(i)
    \/ NextCloserCheck
    \/ ClosestEncloserCheck
    \/ FindPrev
    \/ FindNext

\* ------------------------------------------------------------- purge/main.rs
\* a line of docker output is the sequence of its cells, the first cell being
\* the 12 characters of the id column; names are split around "dns-test"
LineTexts == {<<"dns-test", "-7-1">>, <<"redis">>, <<"img:", "dns-test", "latest">>}

\* the id column, by line
Ids == <<"0a1", "0b2", "0c3", "0d4">>

\* what docker can list: up to MaxLines lines
DockerOutputs ==
    UNION {{[i \in 1..n |-> <<Ids[i]>> \o t[i]] : t \in [1..n -> LineTexts]} : n \in 0..MaxLines}

\* the command lines the utility is started with
PurgeArgs ==
    {<<>>, <<"network">>, <<"container">>, <<"bogus">>, <<"">>,
     <<"network", "container">>, <<"container", "bogus">>}

\* what docker writes to stderr when it fails
Stderrs == {"Cannot connect to the Docker daemon", "permission denied"}

\* how running a docker command can end: it exits successfully, it exits
\* unsuccessfully with something on stderr, or it cannot be started
Outcomes ==
    {[kind |-> "success", stderr |-> ""], [kind |-> "spawn_error", stderr |-> ""]}
        \cup {[kind |-> "failure", stderr |-> e] : e \in Stderrs}

NoError == [kind |-> "none", program |-> "", stderr |-> ""]

\* run_command that does not look at the exit status
run_command_ignoring_status(outcome) ==
    IF outcome.kind = "spawn_error"
    THEN [ok |-> FALSE, err |-> [kind |-> "io", program |-> "", stderr |-> ""]]
    ELSE [ok |-> TRUE, err |-> NoError]

\* run_command: Err when the command cannot be started, Err carrying the
\* program and stderr when it exits unsuccessfully
run_command(outcome) ==
    IF outcome.kind = "spawn_error"
    THEN [ok |-> FALSE, err |-> [kind |-> "io", program |-> "", stderr |-> ""]]
    ELSE IF outcome.kind = "failure"
    THEN [ok |-> FALSE,
          err |-> [kind |-> "exited", program |-> "docker", stderr |-> outcome.stderr]]
    ELSE [ok |-> TRUE, err |-> NoError]

\* line.contains(pat)
contains(line, pat) == \E i \in 1..Len(line) : line[i] = pat

\* filter_command_output on the stdout of a successful command: of the lines
\* that contain "dns-test", the first 12 characters
filter_command_output(lines) ==
    LET kept == SelectSeq(lines, LAMBDA line : contains(line, "dns-test"))
    IN  [i \in 1..Len(kept) |-> kept[i][1]]

\* the listing after docker has removed the objects `ids`
Removed(lines, ids) == SelectSeq(lines, LAMBDA line : line[1] \notin ids)

Range(seq) == {seq[i] : i \in 1..Len(seq)}

\* the match on args.first() with "network" selecting both kinds
match_first_network_selects_both(argv) ==
    IF argv = <<>> \/ argv[1] = "network"
    THEN [unexpected |-> FALSE, clean_network |-> TRUE, clean_container |-> TRUE]
    ELSE IF argv[1] = "container"
    THEN [unexpected |-> FALSE, clean_network |-> FALSE, clean_container |-> TRUE]
    ELSE [unexpected |-> TRUE, clean_network |-> FALSE, clean_container |-> FALSE]

\* the match on args.first() in run
match_first(argv) ==
    IF argv = <<>>
    THEN [unexpected |-> FALSE, clean_network |-> TRUE, clean_container |-> TRUE]
    ELSE IF argv[1] = "network"
    THEN [unexpected |-> FALSE, clean_network |-> TRUE, clean_container |-> FALSE]
    ELSE IF argv[1] = "container"
    THEN [unexpected |-> FALSE, clean_network |-> FALSE, clean_container |-> TRUE]
    ELSE [unexpected |-> TRUE, clean_network |-> FALSE, clean_container |-> FALSE]

PurgeStart == [pc |-> "start", clean_network |-> FALSE, clean_container |-> FALSE, hashes |-> <<>>]

NotExited == [done |-> FALSE, code |-> 0, err |-> NoError]

PurgeIdle ==
    /\ args = <<>> /\ dockerPs = <<>> /\ dockerNetworkLs = <<>>
    /\ purge = PurgeStart /\ ran = <<>> /\ printed = <<>> /\ exit = NotExited

PurgeInit ==
    /\ args \in PurgeArgs
    /\ dockerPs \in DockerOutputs
    /\ dockerNetworkLs \in DockerOutputs
    /\ purge = PurgeStart /\ ran = <<>> /\ printed = <<>> /\ exit = NotExited

\* run returns Err(err): main prints it to stderr and calls exit(1)
ExitErr(err) ==
    /\ purge' = [purge EXCEPT !.pc = "exited"]
    /\ exit' = [done |-> TRUE, code |-> 1, err |-> err]

\* run returns Ok(()): main returns, the exit status is 0
ExitOk ==
    /\ purge' = [purge EXCEPT !.pc = "exited", !.hashes = <<>>]
    /\ exit' = [done |-> TRUE, code |-> 0, err |-> NoError]

\* an Err in the container block that does not leave run
ContainerErrGoesOn(err) ==
    /\ purge' = [purge EXCEPT !.pc = IF purge.clean_network THEN "list_networks" ELSE "exited",
                              !.hashes = <<>>]
    /\ exit' = IF purge.clean_network THEN exit ELSE [done |-> TRUE, code |-> 1, err |-> err]

\* `?` in the `if clean_container` block: run returns the Err
ContainerErr(err) == ExitErr(err)

\* the end of the `if clean_container` block: on to `if clean_network`
AfterContainers ==
    IF purge.clean_network
    THEN /\ purge' = [purge EXCEPT !.pc = "list_networks", !.hashes = <<>>]
         /\ UNCHANGED exit
    ELSE ExitOk

\* args.first() is matched; an unexpected argument returns Err
ParseArgs ==
    /\ purge.pc = "start"
    /\ LET m == match_first(args)
       IN  IF m.unexpected
           THEN ExitErr([kind |-> "unexpected_argument", program |-> "", stderr |-> ""])
           ELSE /\ purge' = [pc |-> IF m.clean_container THEN "list_containers"
                                    ELSE "list_networks",
                             clean_network |-> m.clean_network,
                             clean_container |-> m.clean_container,
                             hashes |-> <<>>]
                /\ UNCHANGED exit
    /\ UNCHANGED <<netVars, ovVars, nsecVars, args, dockerPs, dockerNetworkLs, ran, printed>>

\* filter_command_output(docker ps); utf8 tells whether stdout is UTF-8
ListContainers(outcome, utf8) ==
    /\ purge.pc = "list_containers"
    /\ ran' = Append(ran, [cmd |-> "ps", targets |-> <<>>, outcome |-> outcome])
    /\ LET r == run_command(outcome)
           found == filter_command_output(dockerPs)
       IN  IF ~r.ok THEN ContainerErr(r.err) /\ UNCHANGED printed
           ELSE IF ~utf8
           THEN /\ ContainerErr([kind |-> "utf8", program |-> "", stderr |-> ""])
                /\ UNCHANGED printed
           ELSE IF found = <<>>
           THEN /\ printed' = Append(printed, "No containers to be removed")
                /\ AfterContainers
           ELSE /\ purge' = [purge EXCEPT !.pc = "rm_containers", !.hashes = found]
                /\ UNCHANGED <<printed, exit>>
    /\ UNCHANGED <<netVars, ovVars, nsecVars, args, dockerPs, dockerNetworkLs>>

\* run_command(docker rm -f hashes): a failing command may have removed
\* some of the containers (`gone`); written tells whether write_all succeeds
RemoveContainers(outcome, gone, written) ==
    /\ purge.pc = "rm_containers"
    /\ gone \subseteq Range(purge.hashes)
    /\ outcome.kind = "success" => gone = Range(purge.hashes)
    /\ outcome.kind = "failure" => gone # Range(purge.hashes)
    /\ outcome.kind = "spawn_error" => gone = {}
    /\ ran' = Append(ran, [cmd |-> "rm", targets |-> purge.hashes, outcome |-> outcome])
    /\ dockerPs' = Removed(dockerPs, gone)
    /\ LET r == run_command(outcome)
       IN  IF ~r.ok THEN ContainerErr(r.err) /\ UNCHANGED printed
           ELSE /\ printed' = Append(printed, "Removed containers:")
                /\ IF written THEN AfterContainers
                   ELSE ContainerErr([kind |-> "io", program |-> "", stderr |-> ""])
    /\ UNCHANGED <<netVars, ovVars, nsecVars, args, dockerNetworkLs>>

\* filter_command_output(docker network ls)
ListNetworks(outcome, utf8) ==
    /\ purge.pc = "list_networks"
    /\ ran' = Append(ran, [cmd |-> "network ls", targets |-> <<>>, outcome |-> outcome])
    /\ LET r == run_command(outcome)
           found == filter_command_output(dockerNetworkLs)
       IN  IF ~r.ok THEN ExitErr(r.err) /\ UNCHANGED printed
           ELSE IF ~utf8
           THEN /\ ExitErr([kind |-> "utf8", program |-> "", stderr |-> ""])
                /\ UNCHANGED printed
           ELSE IF found = <<>>
           THEN /\ printed' = Append(printed, "No networks to be removed")
                /\ ExitOk
           ELSE /\ purge' = [purge EXCEPT !.pc = "rm_networks", !.hashes = found]
                /\ UNCHANGED <<printed, exit>>
    /\ UNCHANGED <<netVars, ovVars, nsecVars, args, dockerPs, dockerNetworkLs>>

\* run_command(docker network rm hashes)
RemoveNetworks(outcome, gone, written) ==
    /\ purge.pc = "rm_networks"
    /\ gone \subseteq Range(purge.hashes)
    /\ outcome.kind = "success" => gone = Range(purge.hashes)
    /\ outcome.kind = "failure" => gone # Range(purge.hashes)
    /\ outcome.kind = "spawn_error" => gone = {}
    /\ ran' = Append(ran, [cmd |-> "network rm", targets |-> purge.hashes, outcome |-> outcome])
    /\ dockerNetworkLs' = Removed(dockerNetworkLs, gone)
    /\ LET r == run_command(outcome)
       IN  IF ~r.ok THEN ExitErr(r.err) /\ UNCHANGED printed
           ELSE /\ printed' = Append(printed, "Removed networks:")
                /\ IF written THEN ExitOk
                   ELSE ExitErr([kind |-> "io", program |-> "", stderr |-> ""])
    /\ UNCHANGED <<netVars, ovVars, nsecVars, args, dockerPs>>

PurgeNext ==
    \/ ParseArgs
    \/ \E outcome \in Outcomes, utf8 \in BOOLEAN :
        \/ ListContainers(outcome, utf8)
        \/ ListNetworks(outcome, utf8)
    \/ \E outcome \in Outcomes, gone \in SUBSET Range(Ids), written \in BOOLEAN :
        \/ RemoveContainers(outcome, gone, written)
        \/ RemoveNetworks(outcome, gone, written)

\* ------------------------------------------------------------- specifications
\* the hosts and the test threads that allocate networks
Init == NetInit /\ OvIdle /\ NsecIdle /\ PurgeIdle

Next == NetNext

Spec == Init /\ [][Next]_vars

\* fair scheduling: a thread inside Network::new keeps running, the commands
\* it waits for end, and a thread that finds LOCK free again and again gets it
Fairness ==
    \A a \in Allocs :
        /\ SF_vars(Lock(a))
        /\ WF_vars(LockPoisoned(a))
        /\ WF_vars(Choose(a) \/ ChooseIoError(a))
        /\ WF_vars(Create(a) \/ CreateFails(a))
        /\ WF_vars(Inspect(a) \/ InspectFails(a))

SpecFair == Init /\ [][Next]_vars /\ Fairness

\* overlaps_with on every candidate and interface line
InitOverlap ==
    /\ NetInit /\ hostIfaces = <<Lo>>
    /\ OvInit /\ NsecIdle /\ PurgeIdle

SpecOverlap == InitOverlap /\ [][CallOverlapsWith]_vars

\* the helpers and checks of rfc5155.rs on every table, response and hash
InitNsec3 ==
    /\ NetInit /\ hostIfaces = <<Lo>>
    /\ OvIdle /\ NsecInit /\ PurgeIdle

SpecNsec3 == InitNsec3 /\ [][NsecNext]_vars

\* the cleanup utility on every command line and docker listing
InitPurge ==
    /\ NetInit /\ hostIfaces = <<Lo>>
    /\ OvIdle /\ NsecIdle /\ PurgeInit

SpecPurge == InitPurge /\ [][PurgeNext]_vars

\* ------------------------------------------------------- address ranges
\* the addresses an (address, netmask) pair stands for, octet by octet:
\* address AND netmask up to address OR NOT netmask
OctetLo(o, m) == o - (o % (256 - m))
OctetHi(o, m) == OctetLo(o, m) + (256 - m) - 1
RangeOf(iface) ==
    [lo |-> [i \in 1..4 |-> OctetLo(iface.addr[i], iface.netmask[i])],
     hi |-> [i \in 1..4 |-> OctetHi(iface.addr[i], iface.netmask[i])]]

\* the range of a /24 subnet
SubnetRange(subnet) == RangeOf([addr |-> subnet, netmask |-> <<255, 255, 255, 0>>])

\* x <= y for addresses, most significant octet first
AddrLeq(x, y) ==
    \/ x = y
    \/ \E i \in 1..4 : x[i] < y[i] /\ \A j \in 1..(i - 1) : x[j] = y[j]

Intersect(r1, r2) == AddrLeq(r1.lo, r2.hi) /\ AddrLeq(r2.lo, r1.hi)

\* ------------------------------------------------------------- claims
\* C1: any two networks of one process that exist at the same time have
\* non-overlapping /24 subnets.
C1_LiveSubnetsDisjoint ==
    \A i, j \in 1..Len(networks) :
        (i # j /\ networks[i].name[1] = networks[j].name[1])
            => ~Intersect(SubnetRange(networks[i].subnet), SubnetRange(networks[j].subnet))

\* C1 witness: one process holds two networks at the same time
C1_Witness ==
    \E n, m \in Names :
        /\ n # m /\ n[1] = m[1]
        /\ handles[n] > 0 /\ handles[m] > 0
        /\ {n, m} \subseteq NetworkNames

\* C2 (as claimed): the inspect-choose-create steps of two allocators never
\* interleave, so no two allocators are between inspection and creation with
\* the same subnet chosen.
C2_NoTwoAllocatorsChooseSameSubnet ==
    \A a, b \in Allocs :
        (a # b /\ pc[a] = "chosen" /\ pc[b] = "chosen")
            => frame[a].subnet # frame[b].subnet

\* C3: a network is removed exactly once, by the drop of its last handle:
\* while a handle is held the network exists and was never removed, and the
\* drop of the last handle removes it.
C3_HeldNetworkExists ==
    \A n \in Names :
        /\ rmCalls[n] <= 1
        /\ handles[n] > 0 => (n \in NetworkNames /\ rmCalls[n] = 0)
        /\ rmCalls[n] = 1 => (handles[n] = 0 /\ n \notin NetworkNames)

C3_LastDropRemoves ==
    \A n \in Names :
        /\ (handles[n] = 1 /\ handles'[n] = 0)
              => (n \notin NetworkNames' /\ rmCalls'[n] = rmCalls[n] + 1)
        /\ rmCalls'[n] # rmCalls[n] => (handles[n] = 1 /\ handles'[n] = 0)

C4_NoNetworkLeftAfterError ==
    \A a \in Allocs :
        (pc[a] = "idle" /\ result[a] \notin {"none", "ok"})
            => <<a[1], frame[a].count>> \notin NetworkNames

\* every candidate of the ladder overlaps an interface of `ifconfig`
Exhausted(ifconfig) ==
    \A k \in 1..Len(Ladder) :
        \E i \in 1..Len(ifconfig) : Intersect(SubnetRange(Ladder[k]), RangeOf(ifconfig[i]))

\* C5 (as claimed): a call that found every candidate in use returns an
\* allocation-exhaustion error.
C5_ExhaustionReportedAsError ==
    \A a \in Allocs :
        (pc[a] \notin {"idle", "named"} /\ Exhausted(frame[a].ifconfig))
            => result[a] = "err_exhausted"

\* C6: the subnet a call chose overlaps no interface that the ifconfig
\* output it inspected lists.
C6_ChosenSubnetFree ==
    \A a \in Allocs :
        pc[a] \in {"chosen", "created"}
            => \A i \in 1..Len(frame[a].ifconfig) :
                  ~Intersect(SubnetRange(frame[a].subnet), RangeOf(frame[a].ifconfig[i]))

\* C6 witness: a subnet was chosen on a host with a LAN wider than a /24
\* and a bridge of an earlier network
C6_Witness ==
    \E a \in Allocs :
        /\ pc[a] = "chosen"
        /\ \E i \in 1..Len(frame[a].ifconfig) :
              NetmaskBits(frame[a].ifconfig[i].netmask) = 16
        /\ Len(frame[a].ifconfig) > Len(hostIfaces)

\* C8: the counts one process hands out are pairwise distinct and strictly
\* increasing, so no two of its network names are the same.
C8_CountsStrictlyIncrease ==
    \A p \in Pids :
        \A i, j \in 1..Len(issued[p]) : i < j => issued[p][i] < issued[p][j]

\* C8 witness: two calls of one process are in flight or done, one of them failed
C8_Witness ==
    \E p \in Pids :
        /\ Len(issued[p]) >= 2
        /\ \E a \in Allocs : a[1] = p /\ result[a] \in {"err_create", "err_inspect"}

\* C7 (as claimed): for every candidate and every interface line, whatever
\* its prefix length, overlaps_with returns true exactly when the candidate's
\* /24 range and the interface's range intersect.
C7_OverlapsWithIsIntersection ==
    ovRet # "none"
        => ovRet = (IF Intersect(SubnetRange(ovArgs.lhs), RangeOf(ovArgs.iface))
                    THEN "true" ELSE "false")

\* the entry of a sorted table just before / just after a hash, circularly
Preceding(table, hash) ==
    LET below == {i \in 1..Len(table) : StrLess(table[i], hash)}
    IN  IF below = {} THEN table[Len(table)]
        ELSE table[CHOOSE i \in below : \A j \in below : j <= i]
Following(table, hash) ==
    LET above == {i \in 1..Len(table) : StrLess(hash, table[i])}
    IN  IF above = {} THEN table[1]
        ELSE table[CHOOSE i \in above : \A j \in above : i <= j]

\* owner < hash < next, or, for the record whose next is below its owner,
\* hash above the owner or below next
CoversCircular(record, hash) ==
    IF StrLess(record.next, OwnerHash(record))
    THEN StrLess(OwnerHash(record), hash) \/ StrLess(hash, record.next)
    ELSE StrLess(OwnerHash(record), hash) /\ StrLess(hash, record.next)

\* C9 (as claimed): covers(record, hash) is true iff owner < hash < next in
\* case-normalized order, where the record whose next is below its owner
\* covers every hash above its owner or below its next.
C9_CoversIsCircularInterval ==
    verdict.op = "covers"
        => (verdict.value = "true" <=> CoversCircular(nsec3_rrs[verdict.rec], needle))

\* C10 (as claimed): on the complete chain of a sorted table, for every hash
\* that is not in the table the next-closer check finds a covering record,
\* whose owner is the entry preceding the hash and whose next is the entry
\* following that owner.
C10_NextCloserFoundOnCompleteChain ==
    (/\ verdict.op = "next_closer"
     /\ nsec3_rrs = Chain(hashes)
     /\ \A i \in 1..Len(hashes) : hashes[i] # needle)
        => /\ verdict.value = "ok"
           /\ OwnerHash(nsec3_rrs[verdict.rec]) = Preceding(hashes, needle)
           /\ nsec3_rrs[verdict.rec].next = Following(hashes, OwnerHash(nsec3_rrs[verdict.rec]))

\* C11: for any non-empty sorted table and any needle, in the table or not,
\* find_prev and find_next return an index within 0..len-1; the predecessor
\* of the element at index 0 is the last index and the successor of the last
\* element is index 0.
C11_NeighbourInRangeAndWraps ==
    /\ verdict.op \in {"find_prev", "find_next"}
            => verdict.index \in 0..(Len(hashes) - 1)
    /\ (verdict.op = "find_prev" /\ needle = hashes[1])
            => verdict.index = Len(hashes) - 1
    /\ (verdict.op = "find_next" /\ needle = hashes[Len(hashes)])
            => verdict.index = 0

\* find_next wrapped on the last element of a table of several entries
C11_Witness ==
    /\ verdict.op = "find_next"
    /\ Len(hashes) > 1
    /\ needle = hashes[Len(hashes)]
    /\ verdict.index = 0

\* C13 (as claimed): whatever interfaces are in use on the host, no
\* allocation chooses a subnet inside 172.17.0.0/16, the range of the
\* default bridge network.
C13_DefaultBridgeRangeAvoided ==
    \A a \in Allocs :
        pc[a] \in {"chosen", "created"}
            => ~Intersect(SubnetRange(frame[a].subnet), RangeOf(Docker0))

\* the docker commands that list or remove containers, and networks
ContainerCmds == {"ps", "rm"}
NetworkCmds == {"network ls", "network rm"}

\* the kinds of docker command the utility has run so far
CmdsRan == {ran[i].cmd : i \in 1..Len(ran)}

\* C15: the first argument selects what is cleaned. With "network" only
\* network commands run, with "container" only container commands, with no
\* argument both kinds are listed and cleaned; a run that ends with status 0
\* leaves no dns-test object of a selected kind. Any other first argument
\* ends the run with an error before any docker command has run.
C15_FirstArgumentSelects ==
    LET first == IF args = <<>> THEN "" ELSE args[1]
        done0 == exit.done /\ exit.code = 0
    IN  /\ (args # <<>> /\ first = "network")
            => /\ CmdsRan \subseteq NetworkCmds
               /\ done0 => ("network ls" \in CmdsRan
                            /\ filter_command_output(dockerNetworkLs) = <<>>)
        /\ (args # <<>> /\ first = "container")
            => /\ CmdsRan \subseteq ContainerCmds
               /\ done0 => ("ps" \in CmdsRan
                            /\ filter_command_output(dockerPs) = <<>>)
        /\ (args = <<>> /\ done0)
            => /\ {"ps", "network ls"} \subseteq CmdsRan
               /\ filter_command_output(dockerPs) = <<>>
               /\ filter_command_output(dockerNetworkLs) = <<>>
        /\ (args # <<>> /\ first \notin {"network", "container"})
            => /\ ran = <<>>
               /\ purge.pc # "start"
                    => /\ exit.done /\ exit.code # 0
                       /\ exit.err.kind = "unexpected_argument"

\* started with "network", the utility removed the dns-test networks and
\* ended with status 0 while a dns-test container is still running
C15_Witness ==
    /\ args # <<>> /\ args[1] = "network"
    /\ exit.done /\ exit.code = 0
    /\ "network rm" \in CmdsRan
    /\ filter_command_output(dockerPs) # <<>>

\* C16: a docker command that exits unsuccessfully is the last one the
\* utility runs: the utility ends with a non-zero status and an error that
\* carries the stderr of that command. The exit status is 0 only when every
\* command that was run exited successfully.
C16_CommandFailureIsReported ==
    /\ \A i \in 1..Len(ran) :
          ran[i].outcome.kind = "failure"
              => /\ i = Len(ran)
                 /\ exit.done /\ exit.code # 0
                 /\ exit.err.kind = "exited"
                 /\ exit.err.stderr = ran[i].outcome.stderr
    /\ (exit.done /\ exit.code = 0)
          => /\ ran # <<>>
             /\ \A i \in 1..Len(ran) : ran[i].outcome.kind = "success"

\* `docker network rm` failed after three successful commands
C16_Witness ==
    /\ Len(ran) = 4
    /\ ran[4].cmd = "network rm"
    /\ ran[4].outcome.kind = "failure"
    /\ exit.code = 1
    /\ exit.err.stderr = ran[4].outcome.stderr

\* C20: when both kinds are cleaned, every container command runs before
\* every network command and no dns-test container is left when the first
\* network command runs; when the container step fails no network command
\* runs, so the run removes no network.
C20_ContainersBeforeNetworks ==
    args = <<>>
        => /\ \A i, j \in 1..Len(ran) :
                 (ran[i].cmd \in ContainerCmds /\ ran[j].cmd \in NetworkCmds) => i < j
           /\ CmdsRan \cap NetworkCmds # {}
                 => /\ ran[1].cmd = "ps"
                    /\ filter_command_output(dockerPs) = <<>>
           /\ (exit.done /\ exit.code # 0 /\ ran[Len(ran)].cmd \in ContainerCmds)
                 => CmdsRan \cap NetworkCmds = {}
           /\ (\E i \in 1..Len(ran) :
                    ran[i].cmd \in ContainerCmds /\ ran[i].outcome.kind # "success")
                 => (exit.done /\ exit.code # 0 /\ CmdsRan \cap NetworkCmds = {})

\* with no argument, `docker rm -f` failed while dns-test networks exist:
\* the run is over and no network command has run
C20_Witness ==
    /\ args = <<>>
    /\ Len(ran) = 2
    /\ ran[2].cmd = "rm" /\ ran[2].outcome.kind = "failure"
    /\ exit.done
    /\ filter_command_output(dockerNetworkLs) # <<>>

\* the records of the response whose owner hash is `hash`
OwnedBy(rrs, hash) == {i \in 1..Len(rrs) : OwnerHash(rrs[i]) = hash}

\* C12: with the closest encloser's hash an entry of the table, the
\* closest-encloser check fails when no record of the response has that owner
\* hash; otherwise it looks at a record with that owner hash and accepts it
\* exactly when its next_hashed_owner_name is the table entry that follows
\* the closest encloser's hash circularly.
C12_ClosestEncloserNextIsFollowing ==
    (/\ verdict.op = "closest_encloser"
     /\ \E i \in 1..Len(hashes) : hashes[i] = needle)
        => IF OwnedBy(nsec3_rrs, needle) = {}
           THEN verdict.value = "not_found"
           ELSE /\ verdict.rec \in OwnedBy(nsec3_rrs, needle)
                /\ verdict.value \in {"ok", "next_mismatch"}
                /\ verdict.value = "ok"
                      <=> nsec3_rrs[verdict.rec].next = Following(hashes, needle)

\* the record of the last entry of a table is accepted with next = first entry
C12_Witness ==
    /\ verdict.op = "closest_encloser"
    /\ Len(hashes) > 1
    /\ needle = hashes[Len(hashes)]
    /\ verdict.value = "ok"
    /\ nsec3_rrs[verdict.rec].next = hashes[1]

\* C17 (as claimed): for any non-empty strictly sorted table and any needle,
\* in the table or not, find_next returns the index of the smallest element
\* strictly greater than the needle, or index 0 when no element is greater.
C17_FindNextIsFollowing ==
    verdict.op = "find_next"
        => /\ verdict.index \in 0..(Len(hashes) - 1)
           /\ hashes[verdict.index + 1] = Following(hashes, needle)

\* C18: for any non-empty strictly sorted table and any needle, in the table
\* or not, find_prev returns the index of the greatest element strictly less
\* than the needle, or the last index when no element is smaller.
C18_FindPrevIsPreceding ==
    verdict.op = "find_prev"
        => /\ verdict.index \in 0..(Len(hashes) - 1)
           /\ hashes[verdict.index + 1] = Preceding(hashes, needle)

\* find_prev on a needle that lies strictly between two entries of the table
C18_Witness ==
    /\ verdict.op = "find_prev"
    /\ \A i \in 1..Len(hashes) : hashes[i] # needle
    /\ verdict.index + 1 < Len(hashes)
    /\ StrLess(hashes[verdict.index + 1], needle)
    /\ StrLess(needle, hashes[verdict.index + 2])

\* C14 (as claimed): under fair scheduling every call of Network::new, the
\* ones waiting for the allocation lock included, ends by returning a network
\* or an error.
C14_EveryCallReturns ==
    \A a \in Allocs :
        (pc[a] = "waiting") ~> (pc[a] = "idle" /\ result[a] # "none")

\* the networks of process p in a list of networks
NetworksOf(p, nets) == {nets[i] : i \in {j \in 1..Len(nets) : nets[j].name[1] = p}}

\* C19: once an allocation has panicked while holding LOCK, the lock of that
\* process stays poisoned; every Network::new of the process that reaches
\* the lock from then on returns an error, takes no name and creates no
\* network, also after networks have been removed.
C19_PoisonedLockRefusesLaterCalls ==
    [][\A p \in Pids :
          LOCK[p] = "poisoned"
              => /\ LOCK'[p] = "poisoned"
                 /\ COUNT'[p] = COUNT[p]
                 /\ NetworksOf(p, networks') \subseteq NetworksOf(p, networks)
                 /\ \A a \in Allocs :
                       (a[1] = p /\ pc[a] = "waiting" /\ pc'[a] # "waiting")
                           => /\ pc'[a] = "idle"
                              /\ result'[a] = "err_poisoned"]_vars

\* a call was refused by the poisoned lock after a network of the same
\* process had been created and removed again
C19_Witness ==
    \E a \in Allocs :
        /\ LOCK[a[1]] = "poisoned"
        /\ pc[a] = "idle"
        /\ result[a] = "err_poisoned"
        /\ \E n \in Names : n[1] = a[1] /\ rmCalls[n] = 1
        /\ NetworksOf(a[1], networks) = {}

====
